---- MODULE Spec2Model ----
(***************************************************************************)
(* A model of openapi3/swagger_loader.go: the SwaggerLoader that resolves  *)
(* the "$ref" strings of a Swagger document in place.                      *)
(*                                                                         *)
(* Reference strings are TLA+ strings, taken apart with Len and SubSeq as  *)
(* the Go code takes them apart with strings.HasPrefix, strings.IndexByte  *)
(* and slicing.  A Ref instance (a *SchemaRef, *ParameterRef, ...) is a    *)
(* record [inst, name]: the document instance that owns it and its place   *)
(* in that document.  The Value field of every Ref is the mutable heap.    *)
(* The recursion of the resolvers is an explicit call stack.               *)
(***************************************************************************)
EXTENDS Integers, Sequences, FiniteSets, TLC

\* ------------------------------------------------------------------ bounds

\* Deepest call stack the model follows; a deeper call ends the run "overflow".
MaxDepth == 12
\* Most document instances alive at once (the root and the loaded ones).
MaxInst == 5

\* ------------------------------------------------------------------ strings

\* strings.HasPrefix(s, p)
HasPrefix(s, p) == Len(s) >= Len(p) /\ SubSeq(s, 1, Len(p)) = p

\* strings.IndexByte(s, c): the 0-based index of the first c in s, or -1
IndexByte(s, c) ==
  IF \E i \in 1..Len(s) : SubSeq(s, i, i) = c
  THEN (CHOOSE i \in 1..Len(s) :
          /\ SubSeq(s, i, i) = c
          /\ \A j \in 1..(i - 1) : SubSeq(s, j, j) # c) - 1
  ELSE -1

\* s[n:], n a 0-based byte offset
SliceFrom(s, n) == SubSeq(s, n + 1, Len(s))

\* s[:n]
SliceTo(s, n) == SubSeq(s, 1, n)

\* ------------------------------------------------------------------ net/url

Letters ==
  {"a","b","c","d","e","f","g","h","i","j","k","l","m","n","o","p","q","r","s",
   "t","u","v","w","x","y","z","A","B","C","D","E","F","G","H","I","J","K","L",
   "M","N","O","P","Q","R","S","T","U","V","W","X","Y","Z"}

Digits == {"0","1","2","3","4","5","6","7","8","9"}

HexDigits == Digits \cup {"a","b","c","d","e","f","A","B","C","D","E","F"}

CharAt(s, i) == SubSeq(s, i, i)

\* url.split(s, c, true): s cut at the first c, the c dropped
SplitAt(s, c) ==
  IF IndexByte(s, c) < 0 THEN <<s, "">>
  ELSE <<SliceTo(s, IndexByte(s, c)), SliceFrom(s, IndexByte(s, c) + 1)>>

\* url.split(s, "/", false): s cut before its first '/'
SplitHost(s) ==
  IF IndexByte(s, "/") < 0 THEN <<s, "">>
  ELSE <<SliceTo(s, IndexByte(s, "/")), SliceFrom(s, IndexByte(s, "/"))>>

\* url.getscheme, having scanned s up to its first byte i that no scheme
\* holds (0: there is none): [err, scheme, rest]
SchemeAt(s, i) ==
  IF i = 0 \/ CharAt(s, i) # ":"
  THEN [err |-> FALSE, scheme |-> "", rest |-> s]
  ELSE IF i = 1
  THEN [err |-> TRUE, scheme |-> "", rest |-> s]
  ELSE [err |-> FALSE, scheme |-> SliceTo(s, i - 1), rest |-> SliceFrom(s, i)]

\* The bytes of s that end url.getscheme's scan.
SchemeStops(s) ==
  {i \in 1..Len(s) :
     ~(\/ CharAt(s, i) \in Letters
       \/ i > 1 /\ CharAt(s, i) \in (Digits \cup {"+", "-", "."}))}

\* The least element of a set of numbers, 0 for the empty set.
Least(S) == IF S = {} THEN 0 ELSE CHOOSE k \in S : \A j \in S : k <= j

\* url.getscheme(s)
GetScheme(s) == SchemeAt(s, Least(SchemeStops(s)))

\* url.unescape's validity scan: every % is followed by two hex digits
ValidEscapes(s) ==
  \A i \in 1..Len(s) :
     CharAt(s, i) = "%" =>
        /\ i + 2 <= Len(s)
        /\ CharAt(s, i + 1) \in HexDigits
        /\ CharAt(s, i + 2) \in HexDigits

\* the byte a %XX escape stands for, for the escapes the inputs use
HexByte(xx) ==
  CASE xx \in {"2F", "2f"} -> "/"
    [] xx = "23" -> "#"
    [] xx = "41" -> "A"
    [] OTHER -> "?"

RECURSIVE Unescape(_)
\* url.unescape of a string whose escapes are valid
Unescape(s) ==
  IF s = "" THEN ""
  ELSE IF CharAt(s, 1) = "%"
       THEN HexByte(SubSeq(s, 2, 3)) \o Unescape(SliceFrom(s, 3))
       ELSE CharAt(s, 1) \o Unescape(SliceFrom(s, 1))

NoURL ==
  [err |-> TRUE, Scheme |-> "", Opaque |-> "", Host |-> "", RawQuery |-> "",
   Path |-> "", Fragment |-> ""]

\* url.parse, the authority: rest cut into <<host, path>>
Authority(rest) ==
  IF HasPrefix(rest, "//") /\ ~HasPrefix(rest, "///")
  THEN SplitHost(SliceFrom(rest, 2))
  ELSE <<"", rest>>

\* url.parse after the scheme and the query are cut off: rest is what is left
\* of the URL, auth its <<host, path>>.
ParsePath(scheme, rest, query, auth, frag) ==
  IF ~HasPrefix(rest, "/") /\ scheme # ""
  THEN IF ValidEscapes(frag)
       THEN [NoURL EXCEPT !.err = FALSE, !.Scheme = scheme, !.Opaque = rest,
                          !.RawQuery = query, !.Fragment = Unescape(frag)]
       ELSE NoURL
  ELSE IF /\ ~HasPrefix(rest, "/")
          /\ IndexByte(rest, ":") >= 0
          /\ (IndexByte(rest, "/") < 0 \/ IndexByte(rest, ":") < IndexByte(rest, "/"))
  THEN NoURL
  ELSE IF ~ValidEscapes(auth[2]) \/ ~ValidEscapes(frag)
  THEN NoURL
  ELSE [err |-> FALSE, Scheme |-> scheme, Opaque |-> "", Host |-> auth[1],
        RawQuery |-> query, Path |-> Unescape(auth[2]), Fragment |-> Unescape(frag)]

\* url.parse after getscheme: q is the rest cut at its first '?'.
ParseQuery(sch, q, frag) ==
  IF sch.err THEN NoURL
  ELSE ParsePath(sch.scheme, q[1], q[2], Authority(q[1]), frag)

\* url.Parse after the fragment is cut off.
ParseScheme(sch, frag) == ParseQuery(sch, SplitAt(sch.rest, "?"), frag)

\* url.Parse(ref): the fields of the *url.URL, or err
ParseURL(ref) == ParseScheme(GetScheme(SplitAt(ref, "#")[1]), SplitAt(ref, "#")[2])

\* ------------------------------------------------------------------ documents

\* The kinds of component, each named as its resolver is.
Kinds ==
  {"Header", "Parameter", "RequestBody", "Response", "Schema", "SecurityScheme",
   "Example"}

\* A nil *T inside a document description: the empty place name.
NoRef == ""

\* A nil Value, and the fields a Value of any kind may carry: a Schema's
\* Items, Properties and AdditionalProperties, a Header's or Parameter's
\* Schema, a RequestBody's or Response's Content.
NilValue ==
  [nil |-> TRUE, Items |-> NoRef, Properties |-> {}, AdditionalProperties |-> NoRef,
   Schema |-> NoRef, Content |-> {}]

\* A Value with no nested reference site.
Leaf == [NilValue EXCEPT !.nil = FALSE]

\* A component table that is nil, and one holding the entries of m (id -> place).
NilTable == [nil |-> TRUE, m |-> <<>>]
Table(m) == [nil |-> FALSE, m |-> m]

\* Components with every table nil.
NoComponents == [k \in Kinds |-> NilTable]

\* The Ref struct of kind k as deserialized: its reference string and Value.
MkRef(k, ref, value) == [kind |-> k, Ref |-> ref, Value |-> value]

\* One map entry n |-> v.
Entry(n, v) == [x \in {n} |-> v]

\* An Operation: its Parameters (a slice), RequestBody and Responses (a map).
Operation(params, body, responses) ==
  [Parameters |-> params, RequestBody |-> body, Responses |-> responses]

\* A *PathItem, nil or with the operations Operations() lists.
PathItem(isNil, ops) == [nil |-> isNil, ops |-> ops]

\* ------------------------------------------------------------------ state

VARIABLES
  files,      \* what a document locator reads: path -> deserialized document
  allowed,    \* SwaggerLoader.IsExternalRefsAllowed
  custom,     \* SwaggerLoader.LoadSwaggerFromURIFunc # nil
  entry,      \* the call the run starts with
  insts,      \* the *Swagger instances alive: instance number -> path
  heap,       \* the Value field of every Ref: instance -> place -> pointer
  visited,    \* SwaggerLoader.visited
  stack,      \* the call stack, the running call first
  result,     \* what the outermost call returned, once it has
  loads,      \* the paths LoadSwaggerFromURI was invoked with, in order
  returned,   \* the document instances LoadSwaggerFromURI returned
  raised,     \* the error the call that just ended returned to the running one
  trail,      \* the Refs that went past the visited check, in order
  first,      \* how an earlier call ended, when the running one is a second one
  located     \* the last resolveComponent call: its arguments and steps

vars ==
  <<files, allowed, custom, entry, insts, heap, visited, stack, result, loads,
    returned, raised, trail, first, located>>

\* A pointer to a Ref (and to the Value a Ref owned when deserialized).
Ptr(i, n) == [inst |-> i, name |-> n]
NilPtr == Ptr(0, NoRef)

\* The document instance i is an instance of.
DocOf(fs, is, i) == fs[is[i]]

\* The Ref struct p points at, as deserialized.
RefAt(p) == DocOf(files, insts, p.inst).refs[p.name]

\* The Value struct a non-nil Value pointer v points at.
ValueAt(v) == DocOf(files, insts, v.inst).refs[v.name].Value

\* The Value fields of a freshly deserialized instance i of document d.
FreshHeap(d, i) ==
  [n \in DOMAIN d.refs |-> IF d.refs[n].Value.nil THEN NilPtr ELSE Ptr(i, n)]

\* ------------------------------------------------------------------ errors

Running == [status |-> "running", kind |-> "", ref |-> "", what |-> ""]
Ok      == [Running EXCEPT !.status = "ok"]
Panic   == [Running EXCEPT !.status = "panic"]
Overflow == [Running EXCEPT !.status = "overflow"]

Err(kind, ref, what) == [status |-> "error", kind |-> kind, ref |-> ref, what |-> what]

\* failedToResolveRefFragment
failedToResolveRefFragment(value) == Err("UnresolvableFragment", value, "")

\* failedToResolveRefFragmentPart
failedToResolveRefFragmentPart(value, what) ==
  Err("UnresolvableFragmentPart", value, what)

\* ------------------------------------------------------------------ call stack

\* The program state the calls read and write, as one record.
St ==
  [insts |-> insts, heap |-> heap, visited |-> visited, stack |-> stack,
   result |-> result, loads |-> loads, returned |-> returned, raised |-> raised,
   trail |-> trail, located |-> located]

\* The activation of fn(swagger, component), about to run its first line.
Frame(fn, swagger, component) ==
  [fn |-> fn, swagger |-> swagger, component |-> component, pc |-> "begin",
   resolved |-> NilPtr, loaded |-> 0, frag |-> "", todo |-> <<>>, paths |-> {}]

\* The Ref struct p points at, as deserialized.
RefIn(st, p) == DocOf(files, st.insts, p.inst).refs[p.name]

\* The Value struct the non-nil Value pointer v points at.
ValueIn(st, v) == DocOf(files, st.insts, v.inst).refs[v.name].Value

\* "return nil": the running call ends, and the outermost one ends the run.
Return(st) ==
  LET rest == Tail(st.stack)
  IN  [st EXCEPT !.stack = rest, !.result = IF rest = <<>> THEN Ok ELSE @]

\* The running call calls fn(swagger, component).
Call(st, fn, swagger, component) ==
  IF Len(st.stack) >= MaxDepth
  THEN [st EXCEPT !.stack = <<>>, !.result = Overflow]
  ELSE [st EXCEPT !.stack = <<Frame(fn, swagger, component)>> \o @]

\* The running call's frame replaced by f.
SetTop(st, f) == [st EXCEPT !.stack = <<f>> \o Tail(@)]

\* A nil pointer dereference: the program crashes.
Crash(st) == [st EXCEPT !.stack = <<>>, !.result = Panic]

\* "return err": the running call ends and hands err to its caller, and the
\* outermost one ends the run with it.
Fail(st, err) ==
  LET rest == Tail(st.stack)
  IN  [st EXCEPT !.stack = rest,
                 !.result = IF rest = <<>> THEN err ELSE @,
                 !.raised = IF rest = <<>> THEN Running ELSE err]

\* A caller that goes on as if the call had returned nil.
RethrowNothing(st) == [st EXCEPT !.raised = Running]

\* "if err != nil { return err }" after every call: the running call returns
\* the error it was handed.  A resolveComponent handed the error of its load
\* returns it wrapped (line 178).
Rethrow(st) ==
  Fail([st EXCEPT !.raised = Running],
       IF Head(st.stack).pc = "loading"
       THEN Err("LoaderError", RefIn(st, Head(st.stack).component).Ref, st.raised.kind)
       ELSE st.raised)

\* ------------------------------------------------------------------ resolveComponent

\* The prefix constant of each resolver.
Prefix(k) ==
  CASE k = "Header"         -> "#/components/headers/"
    [] k = "Parameter"      -> "#/components/parameters/"
    [] k = "RequestBody"    -> "#/components/requestBodies/"
    [] k = "Response"       -> "#/components/responses/"
    [] k = "Schema"         -> "#/components/schemas/"
    [] k = "SecurityScheme" -> "#/components/securitySchemes/"
    [] k = "Example"        -> "#/components/examples"

\* What resolveComponent did, for the record kept in located.
\* the swagger, reference string and prefix it was called with, the steps it
\* took, the error and id it returned, and the document instance whose
\* Components it returned (0: none).
Located(swagger, ref, prefix, steps, err, id, doc) ==
  [swagger |-> swagger, ref |-> ref, prefix |-> prefix, steps |-> steps,
   err |-> err, id |-> id, doc |-> doc]

NotLocated == Located(0, "", "", <<>>, Running, "", 0)

\* A locator that looks for a '/' past the prefix's length before it checks
\* the prefix.
resolveComponentTailSlashFirst(ref, prefix) ==
  IF IndexByte(SliceFrom(ref, Len(prefix)), "/") >= 0
  THEN [err |-> failedToResolveRefFragmentPart(ref, SliceFrom(ref, Len(prefix))),
        id |-> "", steps |-> <<"slash">>]
  ELSE IF ~HasPrefix(ref, prefix)
  THEN [err |-> failedToResolveRefFragment(ref), id |-> "", steps |-> <<"slash", "prefix">>]
  ELSE [err |-> Ok, id |-> SliceFrom(ref, Len(prefix)), steps |-> <<"slash", "prefix">>]

\* resolveComponent, lines 182-189: the prefix check, the id, the '/' check.
\* [err, id, steps]
resolveComponentTail(ref, prefix) ==
  IF ~HasPrefix(ref, prefix)
  THEN [err |-> failedToResolveRefFragment(ref), id |-> "", steps |-> <<"prefix">>]
  ELSE LET id == SliceFrom(ref, Len(prefix))
       IN  IF IndexByte(id, "/") >= 0
           THEN [err |-> failedToResolveRefFragmentPart(ref, id), id |-> "",
                 steps |-> <<"prefix", "slash">>]
           ELSE [err |-> Ok, id |-> id, steps |-> <<"prefix", "slash">>]

\* A locator that goes on to parse and load whether or not external
\* references are allowed.
resolveComponentHeadAlwaysAllowed(ref, isAllowed) ==
  IF HasPrefix(ref, "#")
  THEN [next |-> "local", err |-> Ok, url |-> NoURL, steps |-> <<>>]
  ELSE IF ParseURL(ref).err
  THEN [next |-> "fail", err |-> Err("MalformedRefURI", ref, ""),
        url |-> NoURL, steps |-> <<"parse">>]
  ELSE [next |-> "load", err |-> Ok, url |-> ParseURL(ref), steps |-> <<"parse">>]

\* resolveComponent, lines 166-175: a local ref goes on to line 182; an
\* external one fails, or has its URL parsed and goes on to the load.
\* [next, err, url, steps]
resolveComponentHead(ref, isAllowed) ==
  IF HasPrefix(ref, "#")
  THEN [next |-> "local", err |-> Ok, url |-> NoURL, steps |-> <<>>]
  ELSE IF ~isAllowed
  THEN [next |-> "fail", err |-> Err("DisallowedExternalRef", ref, ""),
        url |-> NoURL, steps |-> <<>>]
  ELSE LET parsedURL == ParseURL(ref)
       IN  IF parsedURL.err
           THEN [next |-> "fail", err |-> Err("MalformedRefURI", ref, ""),
                 url |-> NoURL, steps |-> <<"parse">>]
           ELSE [next |-> "load", err |-> Ok, url |-> parsedURL,
                 steps |-> <<"parse">>]

\* LoadSwaggerFromURI, lines 44-50 (the default loader): the error it returns
\* before it reads the document, if any.
DefaultLoaderError(location) ==
  IF location.Scheme # "" \/ location.Host # "" \/ location.RawQuery # ""
  THEN Err("UnsupportedURI", location.Path, "")
  ELSE IF location.Path \notin DOMAIN files
  THEN Err("ReadFile", location.Path, "")
  ELSE Ok

\* LoadSwaggerFromURIFunc, when set: a loader that returns the document at the
\* location's path as deserialized, or fails when there is none.
CustomLoaderError(location) ==
  IF location.Path \notin DOMAIN files
  THEN Err("LoadSwaggerFromURIFunc", location.Path, "")
  ELSE Ok

\* A new *Swagger: the document at path, deserialized (json.Unmarshal).
Unmarshal(st, path) ==
  LET i == Len(st.insts) + 1
  IN  [st EXCEPT !.insts = Append(@, path),
                 !.heap = Append(@, FreshHeap(files[path], i))]

\* ------------------------------------------------------------------ resolvers

\* The run stopped at a bound of the model, not by the program.
Bound == [Running EXCEPT !.status = "bound"]

\* The name of each kind's table, as the error messages give it.
TableName(k) ==
  CASE k = "Header"         -> "headers"
    [] k = "Parameter"      -> "parameters"
    [] k = "RequestBody"    -> "requestBodies"
    [] k = "Response"       -> "responses"
    [] k = "Schema"         -> "schemas"
    [] k = "SecurityScheme" -> "securitySchemes"
    [] k = "Example"        -> "examples"

\* Resolvers none of which starts with the visited check.
Unguarded(k) == FALSE

\* Whether the resolver of kind k starts with the visited check.
Guarded(k) == k # "Example"

\* "definitions == nil": the error each resolver returns.
MissingTable(k, ref) ==
  IF k = "Header" THEN failedToResolveRefFragment(ref)
  ELSE failedToResolveRefFragmentPart(ref, TableName(k))

\* "resolved == nil": the error each resolver returns.
MissingId(k, ref, id) ==
  IF k = "Header" THEN failedToResolveRefFragment(ref)
  ELSE failedToResolveRefFragmentPart(ref, id)

\* One thing a loop of a resolver does next: a call fn(swagger, ref), or the
\* dereference of a nil pointer.
Item(fn, ref) == [crash |-> FALSE, fn |-> fn, ref |-> ref]
CrashItem(ref) == [crash |-> TRUE, fn |-> "", ref |-> ref]
NoItem == Item("", NilPtr)

\* The groups of todo that are not empty.
Norm(todo) == SelectSeq(todo, LAMBDA g : g # {})

\* The schema refs a resolver of kind k descends into, for the Value v owned by
\* instance i: a sequence of groups, a group being iterated in any order.
NestedSites(k, v, i) ==
  LET One(n) == IF n = NoRef THEN {} ELSE {Item("Schema", Ptr(i, n))}
  IN  CASE k = "Schema" ->
             <<One(v.Items),
               {Item("Schema", Ptr(i, n)) : n \in v.Properties},
               One(v.AdditionalProperties)>>
        [] k \in {"Header", "Parameter"} -> <<One(v.Schema)>>
        [] k = "RequestBody" ->
             <<{IF c.nil THEN CrashItem(Ptr(i, c.key))
                ELSE Item("Schema", Ptr(i, c.Schema)) :
                c \in {c \in v.Content : c.nil \/ c.Schema # NoRef}}>>
        [] k = "Response" ->
             <<{Item("Schema", Ptr(i, c.Schema)) :
                c \in {c \in v.Content : ~c.nil /\ c.Schema # NoRef}}>>
        [] OTHER -> <<>>

\* The Value field of the Ref p.
ValueField(st, p) == st.heap[p.inst][p.name]

\* The descent into the nested refs todo starts, if there are any.
StartDescent(st, todo) ==
  IF todo = <<>> THEN Return(st)
  ELSE SetTop(st, [Head(st.stack) EXCEPT !.pc = "descend", !.todo = todo])

\* "value := component.Value" and what follows, v being that Value:
\* resolveSchemaRef reads value.Items with no nil check, the others return.
DescendInto(k, st, v) ==
  IF v = NilPtr
  THEN IF k = "Schema" THEN Crash(st) ELSE Return(st)
  ELSE StartDescent(st, Norm(NestedSites(k, ValueIn(st, v), v.inst)))

\* The lines of a resolver after its "Resolve ref" block.
ValueStep(k, st) ==
  IF k \in {"SecurityScheme", "Example"} THEN Return(st)
  ELSE DescendInto(k, st, ValueField(st, Head(st.stack).component))

\* "err = swaggerLoader.resolveXRef(swagger, resolved)": the resolver calls
\* itself on the target, with the swagger it was called with.
CallResolved(k, st, resolved) ==
  Call(SetTop(st, [Head(st.stack) EXCEPT !.pc = "assign", !.resolved = resolved]),
       k, Head(st.stack).swagger, resolved)

\* The resolver's lookup of the id in definitions, the table of its kind in
\* the document instance doc that resolveComponent returned.
LookupIn(k, st, ref, tail, doc, definitions) ==
  IF tail.err # Ok THEN Fail(st, tail.err)
  ELSE IF definitions.nil THEN Fail(st, MissingTable(k, ref))
  ELSE IF tail.id \notin DOMAIN definitions.m THEN Fail(st, MissingId(k, ref, tail.id))
  ELSE CallResolved(k, st, Ptr(doc, definitions.m[tail.id]))

\* Lines 182-189 of resolveComponent gave tail for the Ref's string ref.
Lookup(k, st, doc, ref, tail, steps) ==
  LookupIn(k,
           [st EXCEPT !.located =
              Located(Head(st.stack).swagger, ref, Prefix(k), steps \o tail.steps, tail.err, tail.id,
                      IF tail.err = Ok THEN doc ELSE 0)],
           ref, tail, doc, DocOf(files, st.insts, doc).comps[k])

\* Lines 182-189 of resolveComponent for the fragment frag against the
\* document instance doc, then the resolver's lookup.
LookupStep(k, st, doc, frag, steps) ==
  Lookup(k, st, doc, RefIn(st, Head(st.stack).component).Ref,
         resolveComponentTail(frag, Prefix(k)), steps)

\* LoadSwaggerFromURI returned a new document: resolveComponent goes on with
\* it (LoadSwaggerFromURIFunc), or LoadSwaggerFromData first resolves it.
Loaded(k, st, frag) ==
  IF custom
  THEN LookupStep(k, [st EXCEPT !.returned = @ \cup {Len(st.insts)}],
                  Len(st.insts), frag, <<"parse", "load">>)
  ELSE Call(SetTop(st, [Head(st.stack) EXCEPT !.pc = "loading",
                                              !.loaded = Len(st.insts),
                                              !.frag = frag]),
            "ResolveRefsIn", Len(st.insts), NilPtr)

\* The error LoadSwaggerFromURI(location) returns without a document, if any.
LoadSwaggerFromURIError(location) ==
  IF custom THEN CustomLoaderError(location) ELSE DefaultLoaderError(location)

\* Lines 176-179 of resolveComponent: the load, lerr being its early error.
Load(k, st, ref, url, lerr) ==
  IF lerr # Ok
  THEN Fail([st EXCEPT !.located.err = Err("LoaderError", ref, lerr.kind)],
            Err("LoaderError", ref, lerr.kind))
  ELSE IF Len(st.insts) >= MaxInst
  THEN [st EXCEPT !.stack = <<>>, !.result = Bound]
  ELSE Loaded(k, Unmarshal(st, url.Path), url.Fragment)

\* resolveComponent(swagger, ref, prefix), hd being what its lines 166-175 gave.
Locate(k, st, ref, hd) ==
  IF hd.next = "local"
  THEN LookupStep(k, st, Head(st.stack).swagger, ref, <<>>)
  ELSE IF hd.next = "fail"
  THEN Fail([st EXCEPT !.located = Located(Head(st.stack).swagger, ref, Prefix(k),
                                           hd.steps, hd.err, "", 0)],
            hd.err)
  ELSE Load(k,
            [st EXCEPT !.loads = Append(@, hd.url.Path),
                       !.located = Located(Head(st.stack).swagger, ref, Prefix(k),
                                           hd.steps \o <<"load">>, Running, "", 0)],
            ref, hd.url, LoadSwaggerFromURIError(hd.url))

\* "if ref := component.Ref; len(ref) > 0 { ... }"
ResolveRef(k, st, ref) ==
  IF Len(ref) = 0 THEN ValueStep(k, st)
  ELSE Locate(k, st, ref, resolveComponentHead(ref, allowed))

\* "visited[component] = struct{}{}", in the resolvers that have the line.
Mark(k, st) ==
  IF Guarded(k) THEN [st EXCEPT !.visited = @ \cup {Head(st.stack).component}]
  ELSE st

\* The running resolver is past its visited check: its Ref joins the trail.
Pass(st) == [st EXCEPT !.trail = Append(@, Head(st.stack).component)]

\* The start of a resolver: the visited check, and the "Resolve ref" block up
\* to the recursive call (or up to the load of an external document).
BeginStep(k, st) ==
  IF Guarded(k) /\ Head(st.stack).component \in st.visited THEN Return(st)
  ELSE ResolveRef(k, Pass(Mark(k, st)), RefIn(st, Head(st.stack).component).Ref)

\* "component.Value = resolved.Value" in the frame f
Assign(st, f) ==
  [st EXCEPT !.heap[f.component.inst][f.component.name] = ValueField(st, f.resolved)]

\* The loop of the running call goes on to it, todo being what is left after.
Descend(st, it, todo) ==
  Call(SetTop(st, [Head(st.stack) EXCEPT
                     !.pc = IF todo = <<>> THEN "return" ELSE @, !.todo = todo]),
       it.fn, Head(st.stack).swagger, it.ref)

\* todo without it, which is in its first group.
Without(todo, it) == Norm([todo EXCEPT ![1] = @ \ {it}])

\* One step of the resolver of kind k, it being what its loop picks next.
ResolverStep(k, st, it) ==
  IF st.raised # Running THEN Rethrow(st) ELSE
  CASE Head(st.stack).pc = "begin" -> BeginStep(k, st)
    [] Head(st.stack).pc = "loading" ->
         LookupStep(k, [st EXCEPT !.returned = @ \cup {Head(st.stack).loaded}],
                    Head(st.stack).loaded, Head(st.stack).frag, <<"parse", "load">>)
    [] Head(st.stack).pc = "assign" -> ValueStep(k, Assign(st, Head(st.stack)))
    [] Head(st.stack).pc = "descend" ->
         IF it.crash THEN Crash(st)
         ELSE Descend(st, it, Without(Head(st.stack).todo, it))
    [] Head(st.stack).pc = "return" -> Return(st)

\* ------------------------------------------------------------------ ResolveRefsIn

\* The component tables ResolveRefsIn walks, in the order of its blocks.
WalkedKinds ==
  <<"Header", "Parameter", "RequestBody", "Response", "Schema", "SecurityScheme">>

\* "for _, component := range m": the entries of table k of instance i.
TableItems(d, k, i) ==
  {Item(k, Ptr(i, d.comps[k].m[id])) : id \in DOMAIN d.comps[k].m}

RECURSIVE OperationSites(_, _)
\* The calls ResolveRefsIn makes for the operations ops of one path item of
\* instance i: each parameter in order, the request body, every response.
OperationSites(ops, i) ==
  IF ops = <<>> THEN <<>>
  ELSE LET op == Head(ops)
       IN  [j \in 1..Len(op.Parameters) |->
              {Item("Parameter", Ptr(i, op.Parameters[j]))}]
           \o <<IF op.RequestBody = NoRef THEN {}
                ELSE {Item("RequestBody", Ptr(i, op.RequestBody))}>>
           \o <<{Item("Response", Ptr(i, n)) : n \in op.Responses}>>
           \o OperationSites(Tail(ops), i)

\* The tables of document d, instance i, in the order ResolveRefsIn walks them.
ComponentSites(d, i) ==
  Norm([j \in 1..Len(WalkedKinds) |-> TableItems(d, WalkedKinds[j], i)])

\* "for _, pathItem := range paths": the path item pathItem is next.
WalkPath(st, key, pathItem) ==
  SetTop(st, [Head(st.stack) EXCEPT
                !.paths = @ \ {key},
                !.todo = IF pathItem.nil THEN <<>>
                         ELSE Norm(OperationSites(pathItem.ops,
                                                  Head(st.stack).swagger))])

\* A ResolveRefsIn that goes on with the visited map it finds.
WalkKeepingVisited(st, f, d, it) ==
  IF st.raised # Running THEN Rethrow(st) ELSE
  CASE f.pc = "begin" ->
         SetTop(st,
                [f EXCEPT !.pc = "walk", !.todo = ComponentSites(d, f.swagger),
                          !.paths = DOMAIN d.paths])
    [] f.pc = "walk" /\ f.todo # <<>> ->
         Call(SetTop(st, [f EXCEPT !.todo = Without(@, it)]),
              it.fn, f.swagger, it.ref)
    [] f.pc = "walk" /\ f.todo = <<>> /\ f.paths # {} ->
         WalkPath(st, it.ref.name, d.paths[it.ref.name])
    [] OTHER -> Return(st)

\* ResolveRefsIn's first line, then the walk of document d: it is the entry
\* or the path item its loops pick next.
Walk(st, f, d, it) ==
  IF st.raised # Running THEN Rethrow(st) ELSE
  CASE f.pc = "begin" ->
         SetTop([st EXCEPT !.visited = {}],
                [f EXCEPT !.pc = "walk", !.todo = ComponentSites(d, f.swagger),
                          !.paths = DOMAIN d.paths])
    [] f.pc = "walk" /\ f.todo # <<>> ->
         Call(SetTop(st, [f EXCEPT !.todo = Without(@, it)]),
              it.fn, f.swagger, it.ref)
    [] f.pc = "walk" /\ f.todo = <<>> /\ f.paths # {} ->
         WalkPath(st, it.ref.name, d.paths[it.ref.name])
    [] OTHER -> Return(st)

\* One step of ResolveRefsIn, it being what its loop picks next.
ResolveRefsInStep(st, it) ==
  Walk(st, Head(st.stack), DocOf(files, st.insts, Head(st.stack).swagger), it)

\* ------------------------------------------------------------------ actions

\* What the loop of the running call may pick next.
Choices ==
  LET f == Head(stack)
  IN  IF f.todo # <<>> THEN Head(f.todo)
      ELSE IF f.fn = "ResolveRefsIn" /\ f.pc = "walk" /\ f.paths # {}
      THEN {Item("path", Ptr(f.swagger, p)) : p \in f.paths}
      ELSE {NoItem}

Set(st) ==
  /\ insts' = st.insts
  /\ heap' = st.heap
  /\ visited' = st.visited
  /\ stack' = st.stack
  /\ result' = st.result
  /\ loads' = st.loads
  /\ returned' = st.returned
  /\ raised' = st.raised
  /\ trail' = st.trail
  /\ located' = st.located
  /\ UNCHANGED <<files, allowed, custom, entry, first>>

Running_(fn) == stack # <<>> /\ Head(stack).fn = fn

ResolveRefsIn ==
  /\ Running_("ResolveRefsIn")
  /\ \E it \in Choices : Set(ResolveRefsInStep(St, it))

resolveHeaderRef ==
  /\ Running_("Header")
  /\ \E it \in Choices : Set(ResolverStep("Header", St, it))

resolveParameterRef ==
  /\ Running_("Parameter")
  /\ \E it \in Choices : Set(ResolverStep("Parameter", St, it))

resolveRequestBodyRef ==
  /\ Running_("RequestBody")
  /\ \E it \in Choices : Set(ResolverStep("RequestBody", St, it))

resolveResponseRef ==
  /\ Running_("Response")
  /\ \E it \in Choices : Set(ResolverStep("Response", St, it))

resolveSchemaRef ==
  /\ Running_("Schema")
  /\ \E it \in Choices : Set(ResolverStep("Schema", St, it))

resolveSecuritySchemeRef ==
  /\ Running_("SecurityScheme")
  /\ \E it \in Choices : Set(ResolverStep("SecurityScheme", St, it))

resolveExampleRef ==
  /\ Running_("Example")
  /\ \E it \in Choices : Set(ResolverStep("Example", St, it))

Next ==
  \/ ResolveRefsIn
  \/ resolveHeaderRef
  \/ resolveParameterRef
  \/ resolveRequestBodyRef
  \/ resolveResponseRef
  \/ resolveSchemaRef
  \/ resolveSecuritySchemeRef
  \/ resolveExampleRef

\* ------------------------------------------------------------------ inputs

\* A deserialized document: its Components, its Paths, and every Ref in it.
Doc(comps, paths, refs) == [comps |-> comps, paths |-> paths, refs |-> refs]

\* The local reference string of the component id of kind k.
LocalRef(k, id) == "#/components/" \o TableName(k) \o "/" \o id

\* How a component of a document reads: a Value without nested refs ("leaf"),
\* a reference string alone ("ref"), or a Value with nested schema refs that
\* carry the reference string to ("nested": in the site of that name).
Shape(form, site, to) == [form |-> form, site |-> site, to |-> to]
LeafShape == Shape("leaf", "", "")
RefShape(to) == Shape("ref", "", to)

\* The Value of a component of kind k with its nested schema ref at place n.
NestedValue(k, site, n) ==
  CASE site = "Items"                -> [Leaf EXCEPT !.Items = n]
    [] site = "Properties"           -> [Leaf EXCEPT !.Properties = {n}]
    [] site = "AdditionalProperties" -> [Leaf EXCEPT !.AdditionalProperties = n]
    [] site = "Schema"               -> [Leaf EXCEPT !.Schema = n]
    [] site = "Content" ->
         [Leaf EXCEPT !.Content = {[key |-> "json", nil |-> FALSE, Schema |-> n]}]
    [] site = "NilContent" ->
         [Leaf EXCEPT !.Content = {[key |-> "json", nil |-> FALSE, Schema |-> n],
                                   [key |-> "xml", nil |-> TRUE, Schema |-> NoRef]}]
    [] site = "NoSchema" ->
         [Leaf EXCEPT !.Content = {[key |-> "json", nil |-> FALSE, Schema |-> NoRef]}]
    [] site = "NilOnly" ->
         [Leaf EXCEPT !.Content = {[key |-> "xml", nil |-> TRUE, Schema |-> NoRef]}]

\* The Refs a component of kind k at place n with shape sh brings.
ShapeRefs(k, n, sh) ==
  CASE sh.form = "leaf" -> n :> MkRef(k, "", Leaf)
    [] sh.form = "ref"  -> n :> MkRef(k, sh.to, NilValue)
    [] sh.form = "nested" ->
         (n :> MkRef(k, "", NestedValue(k, sh.site, n \o "." \o sh.site)))
         @@ (IF sh.site \in {"NoSchema", "NilOnly"} THEN <<>>
             ELSE (n \o "." \o sh.site) :> MkRef("Schema", sh.to, NilValue))

RECURSIVE RefsOf(_, _, _)
\* The Refs of the components ids of kind k, each with its shape.
RefsOf(k, ids, shapes) ==
  IF ids = {} THEN <<>>
  ELSE LET id == CHOOSE x \in ids : TRUE
       IN  ShapeRefs(k, TableName(k) \o "/" \o id, shapes[id])
           @@ RefsOf(k, ids \ {id}, shapes)

\* The table of kind k holding the components ids.
TableOf(k, ids) == Table([id \in ids |-> TableName(k) \o "/" \o id])

\* A root document whose only table is Schemas, with the entries of shapes.
SchemasDoc(shapes) ==
  Doc([NoComponents EXCEPT !["Schema"] = TableOf("Schema", DOMAIN shapes)],
      <<>>, RefsOf("Schema", DOMAIN shapes, shapes))

SchemaIds == {"A", "B", "C"}

\* The shapes of the schema chains, cycles and mutually nested schemas.
ChainShapes ==
  {LeafShape}
  \cup {RefShape(LocalRef("Schema", id)) : id \in SchemaIds}
  \cup {Shape("nested", "Properties", LocalRef("Schema", id)) : id \in SchemaIds}

World(fs, isAllowed, isCustom, call) ==
  [files |-> fs, allowed |-> isAllowed, custom |-> isCustom, entry |-> call]

\* The call a run starts with.
TopLevel == Item("ResolveRefsIn", NilPtr)

\* Documents whose three schemas refer to each other, by reference string or
\* from a property.
ChainWorlds ==
  {World("root.json" :> SchemasDoc(sh), FALSE, FALSE, TopLevel) :
     sh \in [SchemaIds -> ChainShapes]}

RECURSIVE TableRefs(_, _)
\* The Refs of the tables tabs (kind -> id -> shape) of the kinds ks.
TableRefs(tabs, ks) ==
  IF ks = {} THEN <<>>
  ELSE LET k == CHOOSE x \in ks : TRUE
       IN  RefsOf(k, DOMAIN tabs[k], tabs[k]) @@ TableRefs(tabs, ks \ {k})

\* A document with the tables tabs (the other tables nil), the paths and,
\* besides the tables' Refs, the Refs more.
TablesDoc(tabs, paths, more) ==
  Doc([k \in Kinds |-> IF k \in DOMAIN tabs THEN TableOf(k, DOMAIN tabs[k])
                       ELSE NilTable],
      paths, TableRefs(tabs, DOMAIN tabs) @@ more)

\* A nested schema ref at place n with the reference string to, if any.
Site(n, to) == IF to = "" THEN <<>> ELSE n :> MkRef("Schema", to, NilValue)
At(n, to) == IF to = "" THEN NoRef ELSE n

\* Schema A with a nested ref in each of its sites: Items, the properties p
\* and q (q a schema of its own whose Items is a ref), AdditionalProperties.
ObjectDoc(items, prop, inner, addl, shapeB) ==
  TablesDoc("Schema" :> ("B" :> shapeB), <<>>,
            Site("schemas/A.Items", items)
            @@ Site("schemas/A.p", prop)
            @@ Site("schemas/A.q.Items", inner)
            @@ Site("schemas/A.Additional", addl)
            @@ ("schemas/A.q" :>
                  MkRef("Schema", "", [Leaf EXCEPT !.Items = At("schemas/A.q.Items", inner)]))
            @@ ("schemas/A" :>
                  MkRef("Schema", "",
                        [Leaf EXCEPT
                           !.Items = At("schemas/A.Items", items),
                           !.Properties = {"schemas/A.q"}
                                          \cup (IF prop = "" THEN {} ELSE {"schemas/A.p"}),
                           !.AdditionalProperties = At("schemas/A.Additional", addl)])))

\* ObjectDoc's B is in no table built by TableOf alone: add A to Schemas.
WithSchemaA(d) ==
  [d EXCEPT !.comps["Schema"] =
     Table(("A" :> "schemas/A") @@ d.comps["Schema"].m)]

SiteTargets == {"", LocalRef("Schema", "A"), LocalRef("Schema", "B")}

\* Documents whose schema A nests refs in every site a Schema has.
SiteWorlds ==
  {World("root.json" :> WithSchemaA(ObjectDoc(i, p, q, a, b)), FALSE, FALSE, TopLevel) :
     i \in SiteTargets, p \in SiteTargets, q \in SiteTargets, a \in SiteTargets,
     b \in {LeafShape, RefShape(LocalRef("Schema", "A")),
            Shape("nested", "Properties", LocalRef("Schema", "A"))}}

\* The nested sites a Value of kind k may have.
SitesOf(k) ==
  CASE k = "Schema" -> {"Items", "Properties", "AdditionalProperties"}
    [] k \in {"Header", "Parameter"} -> {"Schema"}
    [] k \in {"RequestBody", "Response"} ->
         {"Content", "NilContent", "NoSchema", "NilOnly"}
    [] OTHER -> {}

\* Some kind other than k.
OtherKind(k) == IF k = "Schema" THEN "Parameter" ELSE "Schema"

\* Reference strings a Ref of kind k may carry: to the components x, y and S
\* of its kind, to a missing one, with a '/' in the id, with the prefix of
\* another kind, with the prefix cut short, and to another document.
RefStrings(k) ==
  {LocalRef(k, "x"), LocalRef(k, "y"), LocalRef(k, "z"), LocalRef(k, "x/y"),
   LocalRef(OtherKind(k), "x"), LocalRef(OtherKind(k), "S"),
   "#/components/" \o TableName(k) \o "x",
   "#/components/" \o TableName(k) \o "y",
   "#/components/" \o TableName(k),
   "other.json" \o LocalRef(k, "x")}

\* The shapes of a component of kind k.
KindShapes(k) ==
  {LeafShape}
  \cup {RefShape(r) : r \in RefStrings(k)}
  \cup {Shape("nested", site, to) :
          site \in SitesOf(k), to \in {LocalRef("Schema", "S"), LocalRef("Schema", "Z")}}

\* The tables of a document with the components x and y of kind k, and the
\* schema S.
KindTables(k, x, y) ==
  IF k = "Schema"
  THEN "Schema" :> (("S" :> LeafShape) @@ ("x" :> x) @@ ("y" :> y))
  ELSE ("Schema" :> ("S" :> LeafShape)) @@ (k :> (("x" :> x) @@ ("y" :> y)))

\* A call of resolveExampleRef on the example x of the root document.
ExampleCall == Item("Example", Ptr(1, "examples/x"))

\* The calls a run on a document of the components of kind k starts with.
EntriesOf(k) == IF k = "Example" THEN {TopLevel, ExampleCall} ELSE {TopLevel}

\* Documents with two components x and y of kind k.
KindWorldsOf(k) ==
  {World("root.json" :> TablesDoc(KindTables(k, x, y), <<>>, <<>>), FALSE, FALSE, e) :
     x \in KindShapes(k),
     y \in {LeafShape, RefShape(LocalRef(k, "x")), RefShape(LocalRef(k, "y"))},
     e \in EntriesOf(k)}

\* Documents with two components of one kind, every kind in turn.
KindWorlds == UNION {KindWorldsOf(k) : k \in Kinds}

\* The Refs of an optional Ref of kind k at place n ("none": there is none).
OptRefs(k, n, sh) == IF sh.form = "none" THEN <<>> ELSE ShapeRefs(k, n, sh)
NoShape == Shape("none", "", "")

\* Two paths: a nil path item, and one with two operations, which between
\* them have the parameters p1 and p2, a request body and two responses.
OpPaths(body) ==
  ("/nil" :> PathItem(TRUE, <<>>))
  @@ ("/a" :> PathItem(FALSE,
        <<Operation(<<"paths/a.p1">>, IF body.form = "none" THEN NoRef ELSE "paths/a.body",
                    {"paths/a.r1", "paths/a.r2"}),
          Operation(<<"paths/a.p2", "paths/a.p3">>, NoRef, {})>>))

\* The component tables of the documents with operations, when they have any.
OpTables ==
  ("Schema" :> ("S" :> LeafShape))
  @@ ("Parameter" :> ("x" :> Shape("nested", "Schema", LocalRef("Schema", "S"))))
  @@ ("RequestBody" :> ("x" :> Shape("nested", "Content", LocalRef("Schema", "S"))))
  @@ ("Response" :> ("x" :> LeafShape))

\* A document with operations: the shapes of p1, the request body and r1.
OpDoc(hasTables, p1, body, r1) ==
  TablesDoc(IF hasTables THEN OpTables ELSE <<>>, OpPaths(body),
            ShapeRefs("Parameter", "paths/a.p1", p1)
            @@ ShapeRefs("Parameter", "paths/a.p2", RefShape(LocalRef("Parameter", "x")))
            @@ ShapeRefs("Parameter", "paths/a.p3", LeafShape)
            @@ OptRefs("RequestBody", "paths/a.body", body)
            @@ ShapeRefs("Response", "paths/a.r1", r1)
            @@ ShapeRefs("Response", "paths/a.r2", LeafShape))

\* The shapes of a Ref of kind k in an operation.
OpShapes(k, site) ==
  {RefShape(LocalRef(k, "x")), RefShape(LocalRef("Schema", "S")),
   Shape("nested", site, LocalRef("Schema", "S"))}

\* Documents with operations, with and without component tables.
OpWorlds ==
  {World("root.json" :> OpDoc(t, p1, body, r1), FALSE, FALSE, TopLevel) :
     t \in BOOLEAN, p1 \in OpShapes("Parameter", "Schema"),
     body \in OpShapes("RequestBody", "Content") \cup {NoShape},
     r1 \in OpShapes("Response", "Content")
            \cup {Shape("nested", "NilContent", LocalRef("Schema", "S"))}}

\* The reference string of the component id of kind k of the document at path.
ExternalRef(path, k, id) == path \o LocalRef(k, id)

\* The root document of the runs with external references: schema A carries
\* the reference string ext, schema B is concrete.
ExternalRoot(ext) ==
  TablesDoc("Schema" :> (("A" :> RefShape(ext)) @@ ("B" :> LeafShape)), <<>>, <<>>)

\* The document other.json: its schema X has shape x, its schema Y is concrete.
OtherDoc(x) ==
  TablesDoc("Schema" :> (("X" :> x) @@ ("Y" :> LeafShape)), <<>>, <<>>)

\* The shapes of schema X of other.json: concrete, a ref to a schema of its
\* own document, to one only the root has, back to the root, to itself, and
\* a property that is such a ref.
OtherShapes ==
  {LeafShape,
   RefShape(LocalRef("Schema", "Y")),
   RefShape(LocalRef("Schema", "B")),
   RefShape(ExternalRef("root.json", "Schema", "A")),
   RefShape(ExternalRef("root.json", "Schema", "B")),
   RefShape(ExternalRef("other.json", "Schema", "X")),
   RefShape(ExternalRef("other.json", "Schema", "Y")),
   Shape("nested", "Properties", LocalRef("Schema", "Y")),
   Shape("nested", "Properties", LocalRef("Schema", "B"))}

\* External reference strings that do not name a schema of other.json.
BadExternalRefs ==
  {ExternalRef("other.json", "Schema", "Z"),
   ExternalRef("other.json#", "Schema", "Z"),
   ExternalRef("other.json#", "Schema", "X/Y"),
   ExternalRef("other.json#", "Parameter", "X"),
   ExternalRef("missing.json", "Schema", "X"),
   "other.json",
   ExternalRef("other.json", "Parameter", "X"),
   ExternalRef("other.json", "Schema", "X/Y"),
   ExternalRef("http://host/other.json", "Schema", "X"),
   ExternalRef("other.json?v=1", "Schema", "X"),
   ExternalRef("%zz", "Schema", "X"),
   ExternalRef("a:b", "Schema", "X"),
   ExternalRef("1:b", "Schema", "X")}

TwoFiles(root, other) == ("root.json" :> root) @@ ("other.json" :> other)

\* The reference strings to schema X of other.json: as the grammar has it,
\* and with a second '#', which url.Parse leaves at the head of the fragment.
RefsToOtherX ==
  {ExternalRef("other.json", "Schema", "X"), ExternalRef("other.json#", "Schema", "X")}

\* Runs on a root document whose schema A refers to another document.
ExternalWorlds ==
  {World(TwoFiles(ExternalRoot(ext), OtherDoc(x)), a, c, TopLevel) :
     ext \in RefsToOtherX, x \in OtherShapes, a \in BOOLEAN, c \in BOOLEAN}
  \cup
  {World(TwoFiles(ExternalRoot(ext), OtherDoc(LeafShape)), a, c, TopLevel) :
     ext \in BadExternalRefs, a \in BOOLEAN, c \in BOOLEAN}

\* The tables of other.json in the runs of ExternalKindWorlds: none, or the
\* table of kind k with the component X, or with another component.
OtherTables(k) == {<<>>, k :> ("X" :> LeafShape), k :> ("Y" :> LeafShape)}

\* Runs on a root document whose component x of kind k refers to the
\* component X of that kind of other.json.
ExternalKindWorldsOf(k) ==
  {World(TwoFiles(TablesDoc(k :> ("x" :> RefShape(ExternalRef(path, k, "X"))),
                            <<>>, <<>>),
                  TablesDoc(t, <<>>, <<>>)),
         TRUE, c, e) :
     path \in {"other.json", "other.json#"},
     t \in OtherTables(k), c \in BOOLEAN, e \in EntriesOf(k)}

ExternalKindWorlds == UNION {ExternalKindWorldsOf(k) : k \in Kinds}

\* A root document whose schema A carries the reference string ext and whose
\* schema B has the shape b.
SharedRoot(ext, b) ==
  TablesDoc("Schema" :> (("A" :> RefShape(ext)) @@ ("B" :> b)), <<>>, <<>>)

\* Runs on a root document whose schema A refers to another document and is
\* itself the target of schema B, by reference string or from a property.
SharedWorlds ==
  {World(TwoFiles(SharedRoot(ext, b), OtherDoc(LeafShape)), TRUE, c, TopLevel) :
     ext \in RefsToOtherX,
     b \in {RefShape(LocalRef("Schema", "A")),
            Shape("nested", "Properties", LocalRef("Schema", "A"))},
     c \in BOOLEAN}

Worlds ==
  ChainWorlds \cup SiteWorlds \cup KindWorlds \cup OpWorlds \cup ExternalWorlds
  \cup ExternalKindWorlds \cup SharedWorlds

\* ------------------------------------------------------------------ specification

\* How a call ended: with which result, and with which Values in the Refs of
\* which document instances; and what the next call is given: the "same"
\* loader and document, or an "equal" document and a new loader.
Ended(next, res, is, h) == [next |-> next, result |-> res, insts |-> is, heap |-> h]

\* No call has ended.
NoCall == Ended("", Running, <<>>, <<>>)

Init ==
  \E w \in Worlds :
    /\ files = w.files
    /\ allowed = w.allowed
    /\ custom = w.custom
    /\ entry = w.entry
    /\ insts = <<"root.json">>
    /\ heap = <<FreshHeap(w.files["root.json"], 1)>>
    /\ visited = {}
    /\ stack = <<Frame(w.entry.fn, 1, w.entry.ref)>>
    /\ result = Running
    /\ loads = <<>>
    /\ returned = {}
    /\ raised = Running
    /\ trail = <<>>
    /\ first = NoCall
    /\ located = NotLocated

Spec == Init /\ [][Next]_vars

\* The caller, whose ResolveRefsIn call returned, calls ResolveRefsIn again
\* on the same SwaggerLoader and the same document.
ResolveRefsInAgain ==
  /\ entry = TopLevel /\ stack = <<>> /\ first = NoCall
  /\ result = Ok
  /\ first' = Ended("same", result, insts, heap)
  /\ stack' = <<Frame("ResolveRefsIn", 1, NilPtr)>>
  /\ result' = Running
  /\ trail' = <<>>
  /\ located' = NotLocated
  /\ UNCHANGED <<files, allowed, custom, entry, insts, heap, visited, loads,
                 returned, raised>>

\* The caller, whose ResolveRefsIn call returned or crashed, deserializes the
\* document once more and calls ResolveRefsIn on it with a new SwaggerLoader
\* of the same settings.
ResolveRefsInAnew ==
  /\ entry = TopLevel /\ stack = <<>> /\ first = NoCall
  /\ result \notin {Bound, Overflow}
  /\ first' = Ended("equal", result, insts, heap)
  /\ insts' = <<"root.json">>
  /\ heap' = <<FreshHeap(files["root.json"], 1)>>
  /\ visited' = {}
  /\ stack' = <<Frame("ResolveRefsIn", 1, NilPtr)>>
  /\ result' = Running
  /\ loads' = <<>>
  /\ returned' = {}
  /\ trail' = <<>>
  /\ located' = NotLocated
  /\ UNCHANGED <<files, allowed, custom, entry, raised>>

NextTwice ==
  \/ Next
  \/ ResolveRefsInAgain
  \/ ResolveRefsInAnew

\* Runs in which ResolveRefsIn is called a second time.
SpecTwice == Init /\ [][NextTwice]_vars

\* ------------------------------------------------------------------ properties

\* The outermost call has returned, or the program has crashed.
Finished == stack = <<>>

\* ResolveRefsIn was called on the root document and returned no error.
Succeeded == Finished /\ result = Ok /\ entry = TopLevel

\* The root document, which is instance 1.
Root == files["root.json"]

\* The Value field of the Ref at place n of instance i.
ValueOfRef(i, n) == heap[i][n]

\* The place of the entry of table k of document d that the reference string
\* ref names by the local grammar #/components/<kind>/<id>, or NoRef.
NamedEntry(d, k, ref) ==
  IF \E id \in DOMAIN d.comps[k].m : ref = LocalRef(k, id)
  THEN d.comps[k].m[CHOOSE id \in DOMAIN d.comps[k].m : ref = LocalRef(k, id)]
  ELSE NoRef

\* The Refs of the root document that ResolveRefsIn's walk reaches: all but
\* the examples.
WalkedRefs == {n \in DOMAIN Root.refs : Root.refs[n].kind # "Example"}

\* C1 (as claimed): after ResolveRefsIn returns no error, every Ref the walk
\* reaches has a non-nil Value, and a Ref with a reference string has the
\* Value of the component-table entry the string names.
C1_EveryRefResolved ==
  Succeeded =>
    \A n \in WalkedRefs :
       /\ ValueOfRef(1, n) # NilPtr
       /\ NamedEntry(Root, Root.refs[n].kind, Root.refs[n].Ref) # NoRef =>
            ValueOfRef(1, n) =
              ValueOfRef(1, NamedEntry(Root, Root.refs[n].kind, Root.refs[n].Ref))

\* The root's schema A carries the reference string other.json#/components/
\* schemas/X, and other.json has a schema X.
RefersToOtherX ==
  /\ entry = TopLevel
  /\ "schemas/A" \in DOMAIN Root.refs
  /\ Root.refs["schemas/A"].Ref = ExternalRef("other.json", "Schema", "X")
  /\ "X" \in DOMAIN files["other.json"].comps["Schema"].m

\* C2 (as claimed): with external refs allowed and a loader that returns a
\* document whose Schemas holds X, resolving other.json#/components/schemas/X
\* invokes the loader on other.json, returns no error, and sets the Ref's
\* Value to the Value of X in the loaded document (instance 2).
C2_ExternalRefResolves ==
  (allowed /\ RefersToOtherX /\ Finished /\ 2 \in returned) =>
     /\ loads # <<>> /\ loads[1] = "other.json"
     /\ result = Ok
     /\ ValueOfRef(1, "schemas/A") # NilPtr
     /\ ValueOfRef(1, "schemas/A") = ValueOfRef(2, "schemas/X")

\* C3: while IsExternalRefsAllowed is false the loader is never invoked, and
\* a reference string that does not start with '#' fails with
\* DisallowedExternalRef before any parse, load, prefix check or lookup.
C3_NoLoadWhenDisallowed ==
  ~allowed =>
     /\ loads = <<>>
     /\ insts = <<"root.json">>
     /\ (located.ref # "" /\ CharAt(located.ref, 1) # "#") =>
          /\ located.steps = <<>>
          /\ located.err = Err("DisallowedExternalRef", located.ref, "")
          /\ (IF Finished THEN result ELSE raised) = located.err

\* C3's case: an external reference was met with external refs not allowed.
C3_Witness ==
  /\ ~allowed
  /\ located.ref = ExternalRef("other.json", "Schema", "X")
  /\ result.kind = "DisallowedExternalRef"

\* The root's schemas are the chain A -> B -> C: A and B carry reference
\* strings alone, C a Value.
ChainABC ==
  /\ entry = TopLevel
  /\ DOMAIN Root.comps["Schema"].m = {"A", "B", "C"}
  /\ Root.refs["schemas/A"].Ref = LocalRef("Schema", "B")
  /\ Root.refs["schemas/B"].Ref = LocalRef("Schema", "C")
  /\ Root.refs["schemas/C"].Ref = ""
  /\ ~Root.refs["schemas/C"].Value.nil

\* C4 (as claimed): on a chain A -> B -> C, ResolveRefsIn returns no error
\* and leaves A.Value and B.Value identical to C.Value, whatever the order
\* of the iteration.
C4_ChainFlattens ==
  (ChainABC /\ Finished) =>
     /\ result = Ok
     /\ ValueOfRef(1, "schemas/A") = ValueOfRef(1, "schemas/C")
     /\ ValueOfRef(1, "schemas/B") = ValueOfRef(1, "schemas/C")

\* C4, where C's Value nests no ref: then the chain does flatten.
C4_PlainChainFlattens ==
  (ChainABC /\ Root.refs["schemas/C"].Value = Leaf /\ Finished) =>
     /\ result = Ok
     /\ ValueOfRef(1, "schemas/A") = Ptr(1, "schemas/C")
     /\ ValueOfRef(1, "schemas/B") = Ptr(1, "schemas/C")

\* The root's schemas refer to each other in a cycle of reference strings:
\* A -> B -> C -> A, or A -> A.
RefCycle ==
  /\ entry = TopLevel
  /\ DOMAIN Root.comps["Schema"].m = {"A", "B", "C"}
  /\ \/ /\ Root.refs["schemas/A"].Ref = LocalRef("Schema", "B")
        /\ Root.refs["schemas/B"].Ref = LocalRef("Schema", "C")
        /\ Root.refs["schemas/C"].Ref = LocalRef("Schema", "A")
     \/ Root.refs["schemas/A"].Ref = LocalRef("Schema", "A")

\* C5 (as claimed): on a cycle of reference strings ResolveRefsIn ends
\* normally, with no crash, and returns no error.
C5_CycleTerminates == RefCycle => result \in {Running, Ok}

\* The root document has component schemas only, each with a Value, and
\* every reference string in it is that of a nested schema ref and names one
\* of the component schemas.
ConcreteSchemas ==
  /\ entry = TopLevel
  /\ Root.paths = <<>>
  /\ \A k \in Kinds \ {"Schema"} : Root.comps[k].nil
  /\ \A id \in DOMAIN Root.comps["Schema"].m :
        /\ Root.refs[Root.comps["Schema"].m[id]].Ref = ""
        /\ ~Root.refs[Root.comps["Schema"].m[id]].Value.nil
  /\ \A n \in DOMAIN Root.refs :
        Root.refs[n].Ref # "" => NamedEntry(Root, "Schema", Root.refs[n].Ref) # NoRef

\* C6: when the component schemas all carry a Value and their nested refs
\* point at each other by local reference, ResolveRefsIn ends with no error
\* (no crash, no runaway recursion), and every nested ref ends with the Value
\* of the schema it names.
C6_NestedCyclesResolve ==
  ConcreteSchemas =>
     /\ result \in {Running, Ok}
     /\ Finished =>
          \A n \in DOMAIN Root.refs :
             Root.refs[n].Ref # "" =>
                /\ ValueOfRef(1, n) # NilPtr
                /\ ValueOfRef(1, n) =
                     Ptr(1, NamedEntry(Root, "Schema", Root.refs[n].Ref))

\* C6's case: two schemas that refer to each other from a property (Pet and
\* Person), resolved.
C6_Witness ==
  /\ ConcreteSchemas /\ Finished /\ result = Ok
  /\ "schemas/A.Properties" \in DOMAIN Root.refs
  /\ "schemas/B.Properties" \in DOMAIN Root.refs
  /\ Root.refs["schemas/A.Properties"].Ref = LocalRef("Schema", "B")
  /\ Root.refs["schemas/B.Properties"].Ref = LocalRef("Schema", "A")
  /\ ValueOfRef(1, "schemas/A.Properties") = Ptr(1, "schemas/B")
  /\ ValueOfRef(1, "schemas/B.Properties") = Ptr(1, "schemas/A")

\* r starts with p, byte for byte.
StartsWith(r, p) == Len(r) >= Len(p) /\ \A i \in 1..Len(p) : CharAt(r, i) = CharAt(p, i)

\* What follows the first n bytes of r.
After(r, n) == SubSeq(r, n + 1, Len(r))

\* C7: for a local reference string, the component locator returns
\* UnresolvableFragment when the string lacks the expected prefix, else
\* UnresolvableFragmentPart when the text after the prefix holds a '/', else
\* the Components of the document it was called with and the bare id.
C7_LocatorGrammar ==
  (located.ref # "" /\ CharAt(located.ref, 1) = "#") =>
     IF ~StartsWith(located.ref, located.prefix)
     THEN /\ located.err = Err("UnresolvableFragment", located.ref, "")
          /\ located.doc = 0
     ELSE IF \E i \in 1..Len(After(located.ref, Len(located.prefix))) :
                CharAt(After(located.ref, Len(located.prefix)), i) = "/"
     THEN /\ located.err =
               Err("UnresolvableFragmentPart", located.ref,
                   After(located.ref, Len(located.prefix)))
          /\ located.doc = 0
     ELSE /\ located.err = Ok
          /\ located.id = After(located.ref, Len(located.prefix))
          /\ located.doc = located.swagger

\* C7's case: a parameter reference resolved as a schema, in which a '/'
\* follows the place where the schema prefix would end; the prefix check wins.
C7_Witness ==
  /\ located.ref = LocalRef("Parameter", "x")
  /\ located.prefix = "#/components/schemas/"
  /\ located.err.kind = "UnresolvableFragment"
  /\ result = located.err

\* C8 (as claimed): a well-formed local ref whose table is absent or whose id
\* is not in the table fails with UnresolvableFragmentPart, for every kind.
C8_MissingTargetError ==
  (/\ Finished /\ result.status = "error" /\ insts = <<"root.json">>
   /\ located.ref # "" /\ CharAt(located.ref, 1) = "#" /\ located.err = Ok) =>
     result.kind = "UnresolvableFragmentPart"

\* The component the reference string of the Ref at place n names is in the
\* table of its kind and carries a Value of its own.
NamesConcrete(n) ==
  /\ NamedEntry(Root, Root.refs[n].kind, Root.refs[n].Ref) # NoRef
  /\ Root.refs[NamedEntry(Root, Root.refs[n].kind, Root.refs[n].Ref)].Ref = ""

\* C9 (as claimed): after a pass with no error, every entry of each of the
\* seven tables that carried a reference string has its Value filled (here:
\* with the Value of the component it names, when that one has a Value).
C9_AllTablesResolved ==
  Succeeded =>
    \A k \in Kinds : \A id \in DOMAIN Root.comps[k].m :
       NamesConcrete(Root.comps[k].m[id]) =>
          ValueOfRef(1, Root.comps[k].m[id]) # NilPtr

\* C10 (as claimed): resolveExampleRef accepts #/components/examples/<id> for
\* an id in the Examples table, returning no error and copying the target's
\* Value, and rejects a string without the prefix #/components/examples/
\* with UnresolvableFragment.
C10_ExampleGrammar ==
  (entry = ExampleCall /\ Finished /\ insts = <<"root.json">>) =>
     /\ Root.refs["examples/x"].Ref = LocalRef("Example", "y") =>
          /\ result = Ok
          /\ ValueOfRef(1, "examples/x") = ValueOfRef(1, "examples/y")
          /\ ValueOfRef(1, "examples/x") # NilPtr
     /\ (/\ Root.refs["examples/x"].Ref # ""
         /\ CharAt(Root.refs["examples/x"].Ref, 1) = "#"
         /\ ~StartsWith(Root.refs["examples/x"].Ref, "#/components/examples/")) =>
          result.kind = "UnresolvableFragment"

\* C11: once a step of a pass has produced an error, every later step is a
\* call returning: it marks no Ref visited, assigns no Value and starts no
\* load, and it hands its caller the error it was handed (a locator handed
\* the error of its load hands on a LoaderError), so that the error a
\* ResolveRefsIn pass returns is the one produced inside it.
C11_FailFast ==
  [][raised # Running =>
       /\ visited' = visited /\ heap' = heap /\ loads' = loads /\ insts' = insts
       /\ stack' = Tail(stack)
       /\ IF Head(stack).pc = "loading"
          THEN (IF stack' = <<>> THEN result' ELSE raised').kind = "LoaderError"
          ELSE (IF stack' = <<>> THEN result' ELSE raised') = raised]_vars

\* C11's case: a pass ended with the error of a lookup, which travelled up
\* through the calls, and left an entry of a component table unvisited.
C11_Witness ==
  /\ entry = TopLevel /\ Finished
  /\ result.kind = "UnresolvableFragmentPart"
  /\ \E k \in {"Parameter", "Schema"} : \E id \in DOMAIN Root.comps[k].m :
        Ptr(1, Root.comps[k].m[id]) \notin visited
  /\ visited # {}

\* C12 (as claimed): within one ResolveRefsIn call no Ref goes past the
\* visited check, into its lookup, assignment and descent, more than once.
C12_ProcessedOnce ==
  entry = TopLevel =>
     \A i, j \in DOMAIN trail : i # j => trail[i] # trail[j]

\* No Ref of the root document carries a reference string.
NoRefStrings == \A n \in DOMAIN Root.refs : Root.refs[n].Ref = ""

\* The Value of every Ref with an empty reference string is the one it had
\* when its document was deserialized.
PlainValuesKept ==
  \A i \in DOMAIN heap : \A n \in DOMAIN heap[i] :
     DocOf(files, insts, i).refs[n].Ref = "" =>
        heap[i][n] = FreshHeap(DocOf(files, insts, i), i)[n]

\* C13 (as claimed): ResolveRefsIn leaves the Value of every Ref with an
\* empty reference string as it was, and a document with no reference
\* strings resolves with no error and is left unchanged.
C13_FrameEffect ==
  entry = TopLevel =>
     /\ PlainValuesKept
     /\ NoRefStrings =>
          /\ result \in {Running, Ok}
          /\ heap = <<FreshHeap(Root, 1)>>

\* C13 without the promise of success: no Value of a Ref with an empty
\* reference string changes, and a document with no reference strings is
\* left unchanged, however the call ends.
C13_ValuesKept ==
  entry = TopLevel =>
     /\ PlainValuesKept
     /\ NoRefStrings => heap = <<FreshHeap(Root, 1)>>

\* C14 (as claimed): while a ResolveRefsIn pass is in progress its set of
\* visited Refs only grows, also across the load of an external document.
C14_VisitedGrows ==
  [][entry = TopLevel => visited \subseteq visited']_vars

\* C15 (as claimed): with external references allowed and the default
\* loader, ResolveRefsIn terminates: no run goes on loading documents or
\* nesting calls until it meets the bounds MaxInst and MaxDepth.
C15_DefaultLoaderTerminates ==
  (entry = TopLevel /\ allowed /\ ~custom) => result \notin {Bound, Overflow}

\* The error on its way to the caller of the run, or the one the run ended
\* with.
Pending == IF Finished THEN result ELSE raised

\* The reference strings written in the Refs of the documents in memory.
WrittenRefs ==
  UNION {{DocOf(files, insts, i).refs[n].Ref : n \in DOMAIN heap[i]} :
           i \in DOMAIN heap} \ {""}

\* C16 (as claimed): an error carries the reference string of the Ref being
\* resolved exactly as written: the string the locator was called with, and
\* for the error of a load the string of the Ref that asked for the load.
C16_ErrorNamesRef ==
  (entry = TopLevel /\ Pending.status = "error") =>
     /\ Pending.ref \in WrittenRefs
     /\ Pending.kind # "LoaderError" => Pending.ref = located.ref

\* The Value pointers p of a run with the instances is and q of a run with
\* the instances js point at the same Value of the same document.
SameValue(p, is, q, js) ==
  \/ p = NilPtr /\ q = NilPtr
  \/ /\ p # NilPtr /\ q # NilPtr
     /\ is[p.inst] = js[q.inst]
     /\ p.name = q.name

\* C17 (as claimed): two runs on equal documents, whatever the order in which
\* each iterates, end alike: both with no error, or both with an error of
\* the same kind, or both with a crash; and after two runs with no error
\* every Ref of the document has the same Value.
C17_OrderIndependent ==
  (first.next = "equal" /\ Finished) =>
     /\ result.status = first.result.status
     /\ result.kind = first.result.kind
     /\ result = Ok =>
          \A n \in DOMAIN Root.refs :
             SameValue(heap[1][n], insts, first.heap[1][n], first.insts)

\* C18: every ResolveRefsIn call empties the visited map as it starts,
\* whatever earlier calls left in it; and a second call on the same loader
\* and a document that a first call resolved with no error returns no error
\* and leaves in every Ref the Value it had (the very same one when no
\* document is loaded, else that Value of a later load of the same document).
C18_FreshAndIdempotent ==
  /\ [][(Running_("ResolveRefsIn") /\ Head(stack).pc = "begin") => visited' = {}]_vars
  /\ [](first.next = "same" =>
          /\ result \in {Running, Ok}
          /\ Finished =>
               /\ \A n \in DOMAIN Root.refs :
                     SameValue(heap[1][n], insts, first.heap[1][n], first.insts)
               /\ loads = <<>> => heap = first.heap)

\* C18's case: a second call has ended, on a document whose Refs the first
\* call had visited and given Values.
C18_Witness ==
  /\ first.next = "same" /\ Finished /\ result = Ok
  /\ visited # {}
  /\ \E n \in DOMAIN Root.refs :
        /\ Root.refs[n].Ref # ""
        /\ FreshHeap(Root, 1)[n] = NilPtr
        /\ heap[1][n] # NilPtr

====
